---- MODULE Spec2Model ----
(***************************************************************************)
(* Grant Deadline Tracker (src/grant-tracker.py): the batch pipeline       *)
(* GrantTracker.run -- load the persisted snapshot, keep the records of    *)
(* the last 7 days, collect the static catalog and the NIH, NSF and        *)
(* foundation pages, merge by (title, agency), classify urgency, rank,     *)
(* group and save.                                                         *)
(*                                                                         *)
(* Text is modelled by TLA+ strings (Len, SubSeq and \o act on them as on  *)
(* sequences of characters).  A datetime is an integer number of seconds   *)
(* since 2024-01-01 00:00 in the proleptic Gregorian calendar, so that     *)
(* (a - b).days is the floor of (a - b) / SecondsPerDay.                   *)
(***************************************************************************)
EXTENDS Integers, Sequences, FiniteSets, TLC

(***************************************************************************)
(* Bounds of the model.                                                    *)
(***************************************************************************)
\* number of runs of the pipeline (process invocations) in one behaviour
MaxRuns == 2

\* the clock counts seconds
SecondsPerDay == 86400

(***************************************************************************)
(* Strings                                                                 *)
(***************************************************************************)
Range(s) == {s[i] : i \in DOMAIN s}

\* the lowercase of the letters A to Z
UpperToLower ==
    [A |-> "a", B |-> "b", C |-> "c", D |-> "d", E |-> "e", F |-> "f", G |-> "g",
     H |-> "h", I |-> "i", J |-> "j", K |-> "k", L |-> "l", M |-> "m", N |-> "n",
     O |-> "o", P |-> "p", Q |-> "q", R |-> "r", S |-> "s", T |-> "t", U |-> "u",
     V |-> "v", W |-> "w", X |-> "x", Y |-> "y", Z |-> "z"]

\* str.lower() on one character
LowerChar(c) == IF c \in DOMAIN UpperToLower THEN UpperToLower[c] ELSE c

RECURSIVE Lower(_)
\* str.lower()
Lower(s) ==
    IF Len(s) <= 1 THEN LowerChar(s)
    ELSE Lower(SubSeq(s, 1, Len(s) \div 2))
            \o Lower(SubSeq(s, (Len(s) \div 2) + 1, Len(s)))

IsSpace(c) == c \in {" ", "\t", "\n"}

RECURSIVE LStrip(_)
LStrip(s) ==
    IF Len(s) > 0 /\ IsSpace(SubSeq(s, 1, 1)) THEN LStrip(SubSeq(s, 2, Len(s)))
    ELSE s

RECURSIVE RStrip(_)
RStrip(s) ==
    IF Len(s) > 0 /\ IsSpace(SubSeq(s, Len(s), Len(s)))
    THEN RStrip(SubSeq(s, 1, Len(s) - 1))
    ELSE s

\* str.strip()
Strip(s) == RStrip(LStrip(s))

\* the Python test `t in s` on strings
Contains(s, t) ==
    \E i \in 1..(Len(s) - Len(t) + 1) : SubSeq(s, i, i + Len(t) - 1) = t

\* s[:n]
Truncate(s, n) == SubSeq(s, 1, IF Len(s) < n THEN Len(s) ELSE n)

RECURSIVE RemoveChar(_, _)
\* str.replace(c, '') for a one-character c
RemoveChar(s, c) ==
    IF Len(s) = 0 THEN ""
    ELSE (IF SubSeq(s, 1, 1) = c THEN "" ELSE SubSeq(s, 1, 1))
             \o RemoveChar(SubSeq(s, 2, Len(s)), c)

IsDigit(c) == c \in {"0", "1", "2", "3", "4", "5", "6", "7", "8", "9"}

DigitValue(c) ==
    CASE c = "0" -> 0 [] c = "1" -> 1 [] c = "2" -> 2 [] c = "3" -> 3
      [] c = "4" -> 4 [] c = "5" -> 5 [] c = "6" -> 6 [] c = "7" -> 7
      [] c = "8" -> 8 [] c = "9" -> 9

AllDigits(s) == \A i \in 1..Len(s) : IsDigit(SubSeq(s, i, i))

RECURSIVE DecimalValue(_)
DecimalValue(s) ==
    IF Len(s) = 0 THEN 0
    ELSE 10 * DecimalValue(SubSeq(s, 1, Len(s) - 1))
           + DigitValue(SubSeq(s, Len(s), Len(s)))

\* int(s) for a token of digits, commas, '$' and '.': <<n>>, or << >> when int() raises
ParseInt(s) ==
    IF Len(s) > 0 /\ AllDigits(s) THEN <<DecimalValue(s)>> ELSE << >>

(***************************************************************************)
(* Calendar: datetime, timedelta, strptime                                 *)
(***************************************************************************)
IsLeap(y) == (y % 4 = 0) /\ ((y % 100 # 0) \/ (y % 400 = 0))

DaysInMonth(y, m) ==
    CASE m \in {1, 3, 5, 7, 8, 10, 12} -> 31
      [] m \in {4, 6, 9, 11} -> 30
      [] OTHER -> IF IsLeap(y) THEN 29 ELSE 28

DaysBeforeYear(y) ==
    (y - 1) * 365 + ((y - 1) \div 4) - ((y - 1) \div 100) + ((y - 1) \div 400)

RECURSIVE DaysBeforeMonth(_, _)
DaysBeforeMonth(y, m) ==
    IF m = 1 THEN 0 ELSE DaysBeforeMonth(y, m - 1) + DaysInMonth(y, m - 1)

\* datetime(y, m, d): midnight of that day
DateTime(y, m, d) ==
    (DaysBeforeYear(y) - DaysBeforeYear(2024) + DaysBeforeMonth(y, m) + (d - 1))
        * SecondsPerDay

\* the years the clock and the page dates of the model lie in
Years == 2024..2029

\* datetime.year
YearOf(t) ==
    CHOOSE y \in Years : DateTime(y, 1, 1) <= t /\ t < DateTime(y + 1, 1, 1)

\* timedelta(days=n)
Days(n) == n * SecondsPerDay

\* (a - b).days: timedelta normalises to a floor, also when negative
DaysBetween(a, b) ==
    IF a >= b THEN (a - b) \div SecondsPerDay
    ELSE -(((b - a) + SecondsPerDay - 1) \div SecondsPerDay)

MonthNames ==
    <<"january", "february", "march", "april", "may", "june", "july",
      "august", "september", "october", "november", "december">>

\* %B: the full month name, in any case; 0 when the word is no month
MonthNumber(word) ==
    IF \E m \in 1..12 : MonthNames[m] = Lower(word)
    THEN CHOOSE m \in 1..12 : MonthNames[m] = Lower(word)
    ELSE 0

(***************************************************************************)
(* A date token is what the group (\w+\s+\d{1,2},?\s+\d{4}) captures: a    *)
(* word, a day of one or two digits, an optional comma, a year of four     *)
(* digits.                                                                 *)
(***************************************************************************)
DateToken(word, day, comma, year) ==
    [word |-> word, day |-> day, comma |-> comma, year |-> year]

\* datetime.strptime(token, '%B %d, %Y') when comma, '%B %d %Y' otherwise:
\* <<t>>, or << >> when strptime raises ValueError
Strptime(tok, comma) ==
    IF /\ tok.comma = comma
       /\ MonthNumber(tok.word) # 0
       /\ tok.year >= 1
       /\ tok.day >= 1
       /\ tok.day <= DaysInMonth(tok.year, MonthNumber(tok.word))
    THEN <<DateTime(tok.year, MonthNumber(tok.word), tok.day)>>
    ELSE << >>


\* strptime(f"{date_str} {year}", '%B %d %Y') for a "Month Day" string: the
\* word before the first space, the digits after it
SpaceAt(s) ==
    IF \E i \in 1..Len(s) : SubSeq(s, i, i) = " "
    THEN CHOOSE i \in 1..Len(s) :
            /\ SubSeq(s, i, i) = " "
            /\ \A j \in 1..(i - 1) : SubSeq(s, j, j) # " "
    ELSE 0

MonthDayToken(date_str, year) ==
    LET sp == SpaceAt(date_str)
        dd == ParseInt(Strip(SubSeq(date_str, sp + 1, Len(date_str))))
    IN  IF sp = 0 \/ dd = << >>
        THEN DateToken(date_str, 0, FALSE, year)
        ELSE DateToken(SubSeq(date_str, 1, sp - 1), dd[1], FALSE, year)

(***************************************************************************)
(* Opportunity records (the dicts of self.grants)                          *)
(***************************************************************************)
\* the 'urgency' key is absent until run() or generate_html_website sets it
NoUrgency == -1

Grant(title, agency, url, deadlines, amounts, description, last_updated, source_type, eligibility) ==
    [title |-> title, agency |-> agency, url |-> url, deadlines |-> deadlines,
     amounts |-> amounts, description |-> description,
     last_updated |-> last_updated, source_type |-> source_type,
     eligibility |-> eligibility, urgency |-> NoUrgency]

\* min() of a non-empty list of datetimes
Min(seq) == CHOOSE x \in Range(seq) : \A y \in Range(seq) : x <= y

(***************************************************************************)
(* generate_recurring_deadlines                                            *)
(***************************************************************************)
\* one date string of the loop: the deadlines it appends
RecurringDeadline(date_str, t) ==
    LET current_year == YearOf(t)
        this == Strptime(MonthDayToken(date_str, current_year), FALSE)
        next == Strptime(MonthDayToken(date_str, current_year + 1), FALSE)
    IN  IF this = << >> THEN << >>
        ELSE IF this[1] > t THEN this
        ELSE next

RECURSIVE generate_recurring_deadlines(_, _)
generate_recurring_deadlines(date_strings, t) ==
    IF date_strings = << >> THEN << >>
    ELSE RecurringDeadline(Head(date_strings), t)
            \o generate_recurring_deadlines(Tail(date_strings), t)

(***************************************************************************)
(* is_relevant_grant                                                       *)
(***************************************************************************)
neuro_keywords ==
    <<"brain", "neural", "neuroscience", "cognitive", "behavior", "fmri",
      "eeg", "imaging", "psychology", "psychiatry", "mental health">>

\* the filter without the career stage test
is_relevant_grant_any_stage(grant, profile) ==
    LET text_to_check == Lower(grant.title \o " " \o grant.description)
    IN  \/ \E i \in DOMAIN profile.research_areas :
              Contains(text_to_check, profile.research_areas[i])
        \/ \E i \in DOMAIN neuro_keywords :
              Contains(text_to_check, neuro_keywords[i])

is_relevant_grant(grant, profile) ==
    LET text_to_check == Lower(grant.title \o " " \o grant.description)
        area_match ==
            \E i \in DOMAIN profile.research_areas :
                Contains(text_to_check, profile.research_areas[i])
        career_match ==
            IF grant.eligibility = << >> THEN TRUE
            ELSE \E i \in DOMAIN grant.eligibility :
                    \/ Contains(profile.career_stage, grant.eligibility[i])
                    \/ Contains(grant.eligibility[i], profile.career_stage)
        neuro_match ==
            \E i \in DOMAIN neuro_keywords :
                Contains(text_to_check, neuro_keywords[i])
    IN  (area_match \/ neuro_match) /\ career_match

(***************************************************************************)
(* calculate_urgency                                                       *)
(***************************************************************************)
Critical == 30
High == 90
Medium == 180
Low == 365

\* the tiers with < in place of <=: a boundary day falls in the next tier
calculate_urgency_strict(grant, t) ==
    IF grant.deadlines = << >> THEN 0
    ELSE LET nearest_deadline == Min(grant.deadlines)
             days_until == DaysBetween(nearest_deadline, t)
         IN  IF days_until < Critical THEN 5
             ELSE IF days_until < High THEN 4
             ELSE IF days_until < Medium THEN 3
             ELSE IF days_until < Low THEN 2
             ELSE 1

calculate_urgency(grant, t) ==
    IF grant.deadlines = << >> THEN 0
    ELSE LET nearest_deadline == Min(grant.deadlines)
             days_until == DaysBetween(nearest_deadline, t)
         IN  IF days_until <= Critical THEN 5
             ELSE IF days_until <= High THEN 4
             ELSE IF days_until <= Medium THEN 3
             ELSE IF days_until <= Low THEN 2
             ELSE 1

(***************************************************************************)
(* scrape_static_opportunities: the fixed catalog                          *)
(***************************************************************************)
static_grants(t) ==
    << Grant("NIH F31 Predoctoral Fellowship", "NIH",
             "https://grants.nih.gov/grants/guide/pa-files/PA-23-271.html",
             generate_recurring_deadlines(<<"April 8", "August 8", "December 8">>, t),
             <<25000, 30000>>,
             "Predoctoral fellowships for graduate students conducting dissertation research.",
             t, "static", <<"graduate student", "phd">>),
       Grant("NIH F32 Postdoctoral Fellowship", "NIH",
             "https://grants.nih.gov/grants/guide/pa-files/PA-23-272.html",
             generate_recurring_deadlines(<<"April 8", "August 8", "December 8">>, t),
             <<50000, 60000>>,
             "Postdoctoral fellowships for recent PhD recipients.",
             t, "static", <<"postdoc", "recent phd">>),
       Grant("NIH K01 Career Development Award", "NIH",
             "https://grants.nih.gov/grants/guide/pa-files/PA-23-273.html",
             generate_recurring_deadlines(<<"February 12", "June 12", "October 12">>, t),
             <<100000, 150000>>,
             "Career development awards for early-career investigators.",
             t, "static", <<"assistant professor", "early career">>),
       Grant("NSF Graduate Research Fellowship", "NSF",
             "https://www.nsfgrfp.org/",
             <<DateTime(2025, 10, 15)>>,
             <<37000, 46000>>,
             "Fellowship for outstanding graduate students in STEM fields.",
             t, "static", <<"graduate student", "early graduate">>),
       Grant("Brain & Behavior Research Foundation Young Investigator Grant",
             "Brain & Behavior Research Foundation",
             "https://www.bbrfoundation.org/grants-prizes/young-investigator-grants",
             <<DateTime(2025, 9, 15)>>,
             <<70000>>,
             "Grants for early-career investigators in brain and behavior research.",
             t, "static", <<"postdoc", "assistant professor">>),
       Grant("Simons Foundation Autism Research Initiative (SFARI)",
             "Simons Foundation",
             "https://www.sfari.org/grant-opportunities/",
             generate_recurring_deadlines(<<"January 15", "July 15">>, t),
             <<100000, 300000>>,
             "Research grants focused on autism spectrum disorders.",
             t, "static",
             <<"assistant professor", "associate professor", "professor">>) >>

(***************************************************************************)
(* Field extraction of the page collectors                                 *)
(***************************************************************************)
\* the try/except around strptime: NIH tries '%B %d, %Y' and then '%B %d %Y',
\* NSF and the foundation pages try '%B %d, %Y' alone
ParseDeadline(tok, t, try_plain) ==
    LET first == Strptime(tok, TRUE)
        second == Strptime(tok, FALSE)
    IN  IF first # << >>
        THEN (IF first[1] > t THEN first ELSE << >>)
        ELSE IF try_plain /\ second # << >>
        THEN (IF second[1] > t THEN second ELSE << >>)
        ELSE << >>

RECURSIVE ParseDeadlines(_, _, _)
ParseDeadlines(tokens, t, try_plain) ==
    IF tokens = << >> THEN << >>
    ELSE ParseDeadline(Head(tokens), t, try_plain)
            \o ParseDeadlines(Tail(tokens), t, try_plain)

NihMinAmount == 1000
NihMaxAmount == 10000000
NsfMinAmount == 5000
NsfMaxAmount == 5000000
FoundationMinAmount == 1000
FoundationMaxAmount == 10000000

\* the conversion without the range test
ParseAmountUnchecked(tok, lo, hi) ==
    ParseInt(RemoveChar(RemoveChar(tok, ","), "$"))

\* int(match.replace(',', '').replace('$', '')) and the range test
ParseAmount(tok, lo, hi) ==
    LET amount == ParseInt(RemoveChar(RemoveChar(tok, ","), "$"))
    IN  IF amount # << >> /\ lo <= amount[1] /\ amount[1] <= hi
        THEN amount ELSE << >>

RECURSIVE ParseAmounts(_, _, _)
ParseAmounts(tokens, lo, hi) ==
    IF tokens = << >> THEN << >>
    ELSE ParseAmount(Head(tokens), lo, hi)
            \o ParseAmounts(Tail(tokens), lo, hi)

(***************************************************************************)
(* Fetched documents.  A fetch either raises (kind "error") or returns a   *)
(* document; the captures of the regular expressions over its text are     *)
(* given with it: dates (the date tokens of the deadline patterns, in      *)
(* pattern order) and amounts (the tokens of the amount patterns).         *)
(* h1, title, meta and heading hold zero or one string: the element is     *)
(* absent or present with that text.                                       *)
(***************************************************************************)
FetchError == [kind |-> "error"]

Page(h1, title, dates, amounts, meta, paras, text) ==
    [kind |-> "page", status_code |-> 200, h1 |-> h1, title |-> title,
     dates |-> dates, amounts |-> amounts, meta |-> meta, paras |-> paras,
     text |-> text]

\* the response of a server that answers with another status code: requests.get
\* returns it like any other response
HttpStatus(code, doc) == [doc EXCEPT !.status_code = code]

Link(href, doc) == [href |-> href, doc |-> doc]

Index(links) == [kind |-> "index", links |-> links]

Section(heading, text, dates, amounts) ==
    [heading |-> heading, text |-> text, dates |-> dates, amounts |-> amounts]

FoundationPage(sections) ==
    [kind |-> "page", status_code |-> 200, sections |-> sections]

\* a slice that lets one element more through
TakeThrough(seq, n) == SubSeq(seq, 1, IF Len(seq) < n + 1 THEN Len(seq) ELSE n + 1)

\* seq[:n]
Take(seq, n) == SubSeq(seq, 1, IF Len(seq) < n THEN Len(seq) ELSE n)

DescriptionLimit == 500
SectionDescriptionLimit == 300
LongParagraph == 100
ParagraphsTried == 5

\* title_elem.get_text().strip() if title_elem else default
PageTitle(doc, default) ==
    IF doc.h1 # << >> THEN Strip(doc.h1[1])
    ELSE IF doc.title # << >> THEN Strip(doc.title[1])
    ELSE default

\* the first of the first five paragraphs longer than 100 characters
FirstLongParagraph(paras) ==
    LET cand == Take(paras, ParagraphsTried)
        long == {i \in DOMAIN cand : Len(Strip(cand[i])) > LongParagraph}
    IN  IF long = {} THEN ""
        ELSE Truncate(Strip(cand[CHOOSE i \in long : \A j \in long : i <= j]),
                      DescriptionLimit)

\* parse_nih_grant_page: << >> for None, <<grant>> otherwise
parse_nih_grant_page(url, doc, t) ==
    IF doc.kind = "error" THEN << >>
    ELSE LET meta == IF doc.meta # << >>
                     THEN Truncate(doc.meta[1], DescriptionLimit) ELSE ""
             description == IF meta # "" THEN meta
                            ELSE FirstLongParagraph(doc.paras)
         IN  << Grant(PageTitle(doc, "Unknown Title"), "NIH", url,
                      ParseDeadlines(doc.dates, t, TRUE),
                      ParseAmounts(doc.amounts, NihMinAmount, NihMaxAmount),
                      description, t, "nih", << >>) >>

\* parse_nsf_grant_page
parse_nsf_grant_page(url, doc, t) ==
    IF doc.kind = "error" THEN << >>
    ELSE LET description ==
                 IF doc.meta # << >>
                 THEN Truncate(doc.meta[1], DescriptionLimit)
                 ELSE Truncate(doc.text, DescriptionLimit)
         IN  << Grant(PageTitle(doc, "Unknown NSF Grant"), "NSF", url,
                      ParseDeadlines(doc.dates, t, FALSE),
                      ParseAmounts(doc.amounts, NsfMinAmount, NsfMaxAmount),
                      description, t, "nsf", << >>) >>

\* is_nsf_grant_page
is_nsf_grant_page(url) ==
    \E ind \in {"solicitation", "funding", "pubs", "nsf.gov"} :
        Contains(Lower(url), ind)

\* urljoin(base, href) for the relative links of the index pages
urljoin(base, href) == base \o href

foundations ==
    << [name |-> "Brain & Behavior Research Foundation",
        url |-> "https://www.bbrfoundation.org/grants-prizes"],
       [name |-> "Simons Foundation",
        url |-> "https://www.simonsfoundation.org/funding-opportunities/"],
       [name |-> "Dana Foundation",
        url |-> "https://dana.org/grants/"] >>

SectionLimit == 5

\* one section of the loop of scrape_foundation_page: the grants it appends
FoundationSection(foundation, section, t) ==
    IF section.heading = << >> THEN << >>
    ELSE LET title == Strip(section.heading[1])
             deadlines == ParseDeadlines(section.dates, t, FALSE)
             amounts == ParseAmounts(section.amounts, FoundationMinAmount,
                                     FoundationMaxAmount)
         IN  IF title # "" /\ (deadlines # << >> \/ Contains(Lower(title), "grant"))
             THEN << Grant(title, foundation.name, foundation.url, deadlines,
                           amounts,
                           Strip(Truncate(section.text, SectionDescriptionLimit)),
                           t, "foundation", << >>) >>
             ELSE << >>

RECURSIVE FoundationSections(_, _, _)
FoundationSections(foundation, sections, t) ==
    IF sections = << >> THEN << >>
    ELSE FoundationSection(foundation, Head(sections), t)
            \o FoundationSections(foundation, Tail(sections), t)

\* scrape_foundation_page: [] when the fetch raises
scrape_foundation_page(foundation, doc, t) ==
    IF doc.kind = "error" THEN << >>
    ELSE FoundationSections(foundation, Take(doc.sections, SectionLimit), t)

(***************************************************************************)
(* The merge of run(): unique_grants, a dict in insertion order            *)
(***************************************************************************)
\* the key without normalisation: the titles compared as written
KeyExact(grant) == <<grant.title, grant.agency>>

Key(grant) == <<Strip(Lower(grant.title)), Lower(grant.agency)>>

\* an iteration that keeps the record it saw first, whatever its last_updated
MergeOneKeepFirst(unique_grants, grant) ==
    IF \E i \in DOMAIN unique_grants : <<Strip(Lower(unique_grants[i].title)), Lower(unique_grants[i].agency)>>
                                          = <<Strip(Lower(grant.title)), Lower(grant.agency)>>
    THEN unique_grants
    ELSE Append(unique_grants, grant)

\* an iteration that replaces on >= instead of >: on a tie the last seen wins
MergeOneKeepLast(unique_grants, grant) ==
    LET same == {i \in DOMAIN unique_grants :
                    <<Strip(Lower(unique_grants[i].title)), Lower(unique_grants[i].agency)>>
                        = <<Strip(Lower(grant.title)), Lower(grant.agency)>>}
    IN  IF same = {} THEN Append(unique_grants, grant)
        ELSE LET i == CHOOSE j \in same : TRUE
             IN  IF grant.last_updated >= unique_grants[i].last_updated
                 THEN [unique_grants EXCEPT ![i] = grant]
                 ELSE unique_grants

\* an iteration that adds the newer record at the end and leaves the older one
\* where it is
MergeOneAppending(unique_grants, grant) ==
    LET same == {i \in DOMAIN unique_grants : Key(unique_grants[i]) = Key(grant)}
    IN  IF same = {} THEN Append(unique_grants, grant)
        ELSE LET i == CHOOSE j \in same : TRUE
             IN  IF grant.last_updated > unique_grants[i].last_updated
                 THEN Append(unique_grants, grant)
                 ELSE unique_grants

\* one iteration of the loop over self.grants
MergeOne(unique_grants, grant) ==
    LET same == {i \in DOMAIN unique_grants : Key(unique_grants[i]) = Key(grant)}
    IN  IF same = {} THEN Append(unique_grants, grant)
        ELSE LET i == CHOOSE j \in same : TRUE
             IN  IF grant.last_updated > unique_grants[i].last_updated
                 THEN [unique_grants EXCEPT ![i] = grant]
                 ELSE unique_grants

\* the loop over self.grants. The dict is evaluated after each iteration (it
\* holds at least the record just seen), so that the iterations are evaluated
\* one after the other and not nested in one another
RECURSIVE MergeFrom(_, _)
MergeFrom(unique_grants, rest) ==
    IF rest = << >> THEN unique_grants
    ELSE LET seen == MergeOne(unique_grants, Head(rest))
         IN  IF seen # << >> THEN MergeFrom(seen, Tail(rest)) ELSE seen

\* list(unique_grants.values())
Merge(all) == MergeFrom(<< >>, all)

(***************************************************************************)
(* The ranking of generate_html_website                                    *)
(***************************************************************************)
\* the sort key (x['urgency'], min(x.get('deadlines', [datetime.max]))): the
\* 'deadlines' key is always present, so min() is taken of the list itself
KeyRaises(grant) == grant.deadlines = << >>

\* tuple comparison a > b of the sort keys
KeyGreater(a, b) ==
    \/ a.urgency > b.urgency
    \/ a.urgency = b.urgency /\ Min(a.deadlines) > Min(b.deadlines)

\* insert x into a sequence sorted descending, after the elements that are
\* not smaller: with the elements inserted in list order this is the stable
\* sort that sorted(..., reverse=True) performs
RECURSIVE InsertDescending(_, _)
InsertDescending(sorted, x) ==
    IF sorted = << >> THEN <<x>>
    ELSE IF KeyGreater(x, Head(sorted)) THEN <<x>> \o sorted
    ELSE <<Head(sorted)>> \o InsertDescending(Tail(sorted), x)

RECURSIVE SortedFrom(_, _)
SortedFrom(sorted, rest) ==
    IF rest = << >> THEN sorted
    ELSE SortedFrom(InsertDescending(sorted, Head(rest)), Tail(rest))

\* sorted(grants_with_urgency, key=..., reverse=True)
Sorted(gs) == SortedFrom(<< >>, gs)

UrgentTier == 4
UpcomingTier == 2

RECURSIVE Keep(_, _)
\* [g for g in gs if ...]: the elements at the indices of keep, in order
Keep(gs, keep) ==
    IF gs = << >> THEN << >>
    ELSE LET front == Keep(SubSeq(gs, 1, Len(gs) - 1), keep)
         IN  IF Len(gs) \in keep THEN Append(front, gs[Len(gs)]) ELSE front

urgent_grants(sorted) ==
    Keep(sorted, {i \in DOMAIN sorted : sorted[i].urgency >= UrgentTier})
\* the middle bucket with <= 4: a tier 4 record lands in two buckets
upcoming_grants_inclusive(sorted) ==
    Keep(sorted, {i \in DOMAIN sorted :
                    UpcomingTier <= sorted[i].urgency /\ sorted[i].urgency <= UrgentTier})
upcoming_grants(sorted) ==
    Keep(sorted, {i \in DOMAIN sorted :
                    UpcomingTier <= sorted[i].urgency /\ sorted[i].urgency < UrgentTier})
future_grants(sorted) ==
    Keep(sorted, {i \in DOMAIN sorted : sorted[i].urgency < UpcomingTier})

\* a loop that leaves alone the urgency a record brought from the file
WithUrgencyKeepingPersisted(gs, t) ==
    [i \in DOMAIN gs |->
        IF gs[i].urgency # NoUrgency THEN gs[i]
        ELSE [gs[i] EXCEPT !.urgency = calculate_urgency(gs[i], t)]]

\* grant['urgency'] = self.calculate_urgency(grant) for every grant
WithUrgency(gs, t) ==
    [i \in DOMAIN gs |-> [gs[i] EXCEPT !.urgency = calculate_urgency(gs[i], t)]]

(***************************************************************************)
(* The snapshot file grant_docs/grants.json                                *)
(***************************************************************************)
\* datetime.month and datetime.day
MonthOf(t) ==
    CHOOSE m \in 1..12 :
        /\ DateTime(YearOf(t), m, 1) <= t
        /\ t < DateTime(YearOf(t), m, 1) + Days(DaysInMonth(YearOf(t), m))

DayOf(t) == ((t - DateTime(YearOf(t), MonthOf(t), 1)) \div SecondsPerDay) + 1

\* a number in two digits
TwoDigits(n) == IF n < 10 THEN "0" \o ToString(n) ELSE ToString(n)

\* date.isoformat(): the day without the time of day
IsoFormatDate(t) ==
    ToString(YearOf(t)) \o "-" \o TwoDigits(MonthOf(t)) \o "-" \o TwoDigits(DayOf(t))

\* datetime.isoformat(): 'YYYY-MM-DDTHH:MM:SS'
IsoFormat(t) ==
    LET secs == t % SecondsPerDay
    IN  ToString(YearOf(t)) \o "-" \o TwoDigits(MonthOf(t)) \o "-"
            \o TwoDigits(DayOf(t)) \o "T" \o TwoDigits(secs \div 3600) \o ":"
            \o TwoDigits((secs % 3600) \div 60) \o ":" \o TwoDigits(secs % 60)

\* datetime.fromisoformat(text.replace('Z', '+00:00')): the date, and the time
\* of day when the text holds one
FromIsoFormat(text) ==
    LET field(a, b) == DecimalValue(SubSeq(text, a, b))
        time == IF Len(text) >= 19
                THEN field(12, 13) * 3600 + field(15, 16) * 60 + field(18, 19)
                ELSE 0
    IN  DateTime(field(1, 4), field(6, 7), field(9, 10)) + time

\* save_grants: the serializable copy of one grant
Serializable(grant) ==
    [grant EXCEPT
        !.deadlines = [i \in DOMAIN grant.deadlines |-> IsoFormat(grant.deadlines[i])],
        !.last_updated = IsoFormat(grant.last_updated)]

\* save_grants: the file it leaves
written(gs) ==
    [exists |-> TRUE, complete |-> TRUE,
     data |-> [i \in DOMAIN gs |-> Serializable(gs[i])]]

\* load_existing_grants: one record of the file
Deserialized(entry) ==
    [entry EXCEPT
        !.deadlines = [i \in DOMAIN entry.deadlines |-> FromIsoFormat(entry.deadlines[i])],
        !.last_updated = FromIsoFormat(entry.last_updated)]

\* json.load raises on a text that stops before its end; the except clause
\* returns []
load_existing_grants(file) ==
    IF file.exists /\ file.complete
    THEN [i \in DOMAIN file.data |-> Deserialized(file.data[i])]
    ELSE << >>

StalenessDays == 7

\* the window with >= instead of >: a record of exactly 7 days ago is kept
RecentInclusive(existing, week_ago) ==
    Keep(existing, {i \in DOMAIN existing : existing[i].last_updated >= week_ago})

\* [g for g in existing_grants if g.get('last_updated', datetime.min) > week_ago]
Recent(existing, week_ago) ==
    Keep(existing, {i \in DOMAIN existing : existing[i].last_updated > week_ago})

\* [g for g in candidates if self.is_relevant_grant(g)]
Relevant(candidates, profile) ==
    Keep(candidates, {i \in DOMAIN candidates : is_relevant_grant(candidates[i], profile)})

(***************************************************************************)
(* The environment: run configuration, the web, the clock                  *)
(***************************************************************************)
\* RESEARCH_AREAS and CAREER_STAGE: the defaults, and a second profile
Profiles ==
    { [research_areas |-> <<"neuroscience", "cognitive science", "brain imaging">>,
       career_stage |-> "postdoc"],
      [research_areas |-> <<"fellowship">>,
       career_stage |-> "graduate student"] }

LongText ==
    "This program supports studies of neural circuits and of the mechanisms of "
    \o "memory in humans and in animal models over a period of five years."

NihDocAward ==
    Page(<<"Brain Imaging Award">>, <<"NIH Guide">>,
         <<DateToken("October", 10, TRUE, 2025), DateToken("January", 5, TRUE, 2025),
           DateToken("by", 12, TRUE, 2025)>>,
         <<"50,000", "999", "1,000.00">>,
         <<"Funding for brain imaging research.">>, << >>,
         "Brain Imaging Award. Applications are due October 10, 2025.")

\* the same opportunity under another spelling of its title
NihDocAwardUpper ==
    Page(<<"  BRAIN IMAGING AWARD ">>, << >>,
         <<DateToken("March", 9, FALSE, 2026)>>,
         <<"10,000,001", "10,000,000", ",", "1,000.00">>,
         << >>, <<"Short.", LongText>>,
         "BRAIN IMAGING AWARD deadline March 9 2026")

\* a page on which no future date is found
NihDocNoDate ==
    Page(<< >>, <<"EEG Study Program">>,
         <<DateToken("June", 1, TRUE, 2025), DateToken("June", 31, TRUE, 2026)>>,
         << >>, << >>, << >>, "EEG Study Program deadline June 1, 2025")

\* the answer to a link that no longer exists: status 404 with a page of its own
NihDocMissing ==
    HttpStatus(404,
        Page(<<"Page Not Found">>, <<"404 - Page Not Found | grants.nih.gov">>,
             << >>, << >>, << >>,
             <<"The page you requested could not be found. Visit the National "
               \o "Institute of Mental Health funding pages or search the NIH Guide.">>,
             "Page Not Found"))

\* a page whose first heading holds no text
NihDocUntitled ==
    Page(<<"  ">>, <<"PA-25-008: Neuroscience Training | NIH Guide">>,
         <<DateToken("January", 20, TRUE, 2026)>>, <<"120,000">>,
         <<"Support for neuroscience research training.">>, << >>,
         "Application due date January 20, 2026.")

NihDocOther ==
    Page(<<"Mathematics Prize">>, << >>,
         <<DateToken("November", 3, TRUE, 2025)>>, <<"2,000">>,
         <<"A prize for number theory.">>, << >>, "Mathematics Prize")

\* a page with two dates, the first of them a few days ahead of the first run
NihDocMethods ==
    Page(<<"fMRI Methods Development">>, << >>,
         <<DateToken("September", 10, TRUE, 2025), DateToken("February", 5, TRUE, 2026)>>,
         <<"250,000">>,
         <<"Development of acquisition methods.">>, << >>,
         "fMRI Methods Development. Letter of intent due September 10, 2025."
            \o " Application due February 5, 2026.")

NsfDocSolicitation ==
    Page(<<"Cognitive Neuroscience Solicitation">>, <<"NSF">>,
         <<DateToken("December", 9, TRUE, 2025), DateToken("December", 1, FALSE, 2025)>>,
         <<"4,999", "5,000", "5,000,000", "5,000,001">>,
         << >>, << >>,
         "Cognitive Neuroscience Solicitation. Full proposal deadline December 9, 2025.")

FoundationDoc ==
    FoundationPage(
      << Section(<<"Brain & Behavior Research Foundation Young Investigator Grant">>,
                 "  Young Investigator Grant. Deadline: September 11, 2026. $70,000 ",
                 <<DateToken("September", 11, TRUE, 2026)>>, <<"70,000", "500">>),
         Section(<< >>, "About our funding", << >>, << >>),
         Section(<<"Research Awards">>, "Research Awards due March 10, 2026",
                 <<DateToken("March", 10, TRUE, 2026)>>, << >>),
         Section(<<"research awards">>, "research awards due September 10, 2026",
                 <<DateToken("September", 10, TRUE, 2026)>>, << >>),
         Section(<<"Past Awards">>, "Past Awards, due May 1 2026",
                 <<DateToken("May", 1, FALSE, 2026)>>, << >>) >>)

\* a section titled as a grant, with no date in it
FoundationDocNoDate ==
    FoundationPage(<< Section(<<"Travel Grant">>, "Travel Grant for students",
                              << >>, <<"1,500">>) >>)

AllDown ==
    [nih |-> FetchError, nsf |-> FetchError,
     foundation |-> <<FetchError, FetchError, FetchError>>]

\* what the sites may serve during one run
Webs ==
    { AllDown,
      [nih |-> Index(<< Link("/grants/guide/pa-files/PA-25-001.html", NihDocAward),
                        Link("/grants/guide/pa-files/PA-25-002.html", NihDocAwardUpper) >>),
       nsf |-> FetchError,
       foundation |-> <<FoundationDoc, FetchError, FoundationPage(<< >>)>>],
      [nih |-> Index(<< Link("/grants/guide/pa-files/PA-25-002.html", NihDocAwardUpper),
                        Link("/grants/guide/pa-files/PA-25-004.html", FetchError),
                        Link("/grants/guide/notice-files/NOT-25-003.html", NihDocOther),
                        Link("/grants/guide/pa-files/PA-25-007.html", NihDocMethods) >>),
       nsf |-> Index(<< Link("/funding/opportunities/cogneuro", NsfDocSolicitation) >>),
       foundation |-> <<FetchError, FetchError, FetchError>>],
      [nih |-> Index(<< Link("/grants/guide/pa-files/PA-25-005.html", NihDocNoDate),
                        Link("/grants/guide/pa-files/PA-19-006.html", NihDocMissing),
                        Link("/grants/guide/pa-files/PA-25-008.html", NihDocUntitled) >>),
       nsf |-> Index(<< >>),
       foundation |-> <<FetchError, FoundationDocNoDate, FetchError>>] }

\* the time one requests.get takes
FetchSeconds == 1
\* time.sleep(1) after each link, time.sleep(2) after each foundation
LinkSleep == 1
FoundationSleep == 2

\* the first run starts at 2025-09-08 00:00:00
FirstStart == DateTime(2025, 9, 8)

\* a later run starts this long after the start of the run before it
StartGaps == {Days(6), Days(7) + 2 * FetchSeconds, Days(8)}

NihLimit == 20
NsfLimit == 15

(***************************************************************************)
(* State                                                                   *)
(***************************************************************************)
VARIABLES
    now,            \* datetime.now()
    pc,             \* where run() stands: "idle" between runs
    runs,           \* runs started so far
    profile,        \* research areas and career stage
    force_refresh,  \* FORCE_REFRESH of the current run
    web,            \* what the sites serve during the current run
    grants,         \* self.grants
    idx,            \* position of the collector's loop
    file,           \* grant_docs/grants.json
    sorted_grants,  \* sorted_grants of generate_html_website
    groups,         \* urgent_grants, upcoming_grants, future_grants
    status,         \* "none", "running", "ok" or "raised": how the last run ended
    started,        \* the time the current run started
    baseline,       \* self.grants as loaded and windowed at the start of the run
    collected,      \* self.grants as it stood before the merge
    previous,       \* the records of the file as they stood when the run started
    snapshot,       \* the file as it stood when the run started
    args,           \* the arguments of a function called on its own
    result,         \* what that call returned
    fetches         \* the requests.get calls of the current run, in order

vars ==
    <<now, pc, runs, profile, force_refresh, web, grants, idx, file,
      sorted_grants, groups, status, started, baseline, collected, previous,
                   snapshot, args, result, fetches>>

\* one requests.get: the site asked, when the request was sent and when the
\* response (or the exception) came back
Fetched(origin, sent) ==
    [origin |-> origin, sent |-> sent, received |-> sent + FetchSeconds]

NoGroups == [urgent |-> << >>, upcoming |-> << >>, future |-> << >>]

Init ==
    /\ now = FirstStart
    /\ pc = "idle"
    /\ runs = 0
    /\ profile \in Profiles
    /\ force_refresh = FALSE
    /\ web = AllDown
    /\ grants = << >>
    /\ idx = 0
    /\ file = [exists |-> FALSE, complete |-> FALSE, data |-> << >>]
    /\ sorted_grants = << >>
    /\ groups = NoGroups
    /\ status = "none"
    /\ started = FirstStart
    /\ baseline = << >>
    /\ collected = << >>
    /\ previous = << >>
    /\ snapshot = file
    /\ args = << >>
    /\ result = << >>
    /\ fetches = << >>

(***************************************************************************)
(* run(): loading the baseline                                             *)
(***************************************************************************)
\* the baseline loaded whatever FORCE_REFRESH says
LoadBaselineAlways(f, forced, t) ==
    Recent(load_existing_grants(f), t - Days(StalenessDays))

\* the baseline without the window: every record of the file
LoadBaselineUnwindowed(f, forced, t) ==
    IF forced THEN << >>
    ELSE load_existing_grants(f)

\* existing grants updated in the last 7 days, or nothing under FORCE_REFRESH
LoadBaseline(f, forced, t) ==
    IF forced THEN << >>
    ELSE Recent(load_existing_grants(f), t - Days(StalenessDays))

\* run() with a load_existing_grants that opens the file without asking
\* whether it exists: FileNotFoundError ends the run
StartRunOpeningFile(w, forced, start) ==
    /\ pc = "idle"
    /\ runs < MaxRuns
    /\ start >= now
    /\ now' = start
    /\ started' = start
    /\ runs' = runs + 1
    /\ web' = w
    /\ force_refresh' = forced
    /\ grants' = LoadBaseline(file, forced, start)
    /\ baseline' = grants'
    /\ collected' = << >>
    /\ previous' = load_existing_grants(file)
    /\ snapshot' = file
    /\ fetches' = << >>
    /\ sorted_grants' = << >>
    /\ groups' = NoGroups
    /\ idx' = 0
    /\ IF ~forced /\ ~file.exists
       THEN status' = "raised" /\ pc' = "idle"
       ELSE status' = "running" /\ pc' = "static"
    /\ UNCHANGED <<profile, file, args, result>>

StartRun(w, forced, start) ==
    /\ pc = "idle"
    /\ runs < MaxRuns
    /\ start >= now
    /\ now' = start
    /\ started' = start
    /\ runs' = runs + 1
    /\ web' = w
    /\ force_refresh' = forced
    /\ grants' = LoadBaseline(file, forced, start)
    /\ baseline' = grants'
    /\ collected' = << >>
    /\ previous' = load_existing_grants(file)
    /\ snapshot' = file
    /\ fetches' = << >>
    /\ sorted_grants' = << >>
    /\ groups' = NoGroups
    /\ status' = "running"
    /\ idx' = 0
    /\ pc' = "static"
    /\ UNCHANGED <<profile, file, args, result>>

Start ==
    \E w \in Webs, forced \in BOOLEAN :
        \/ runs = 0 /\ StartRun(w, forced, FirstStart)
        \/ runs > 0 /\ \E gap \in StartGaps : StartRun(w, forced, started + gap)

(***************************************************************************)
(* The collectors                                                          *)
(***************************************************************************)
\* a static collector that skips the records whose key self.grants already holds
ScrapeStaticOnce ==
    /\ pc = "static"
    /\ LET static == Relevant(static_grants(now), profile)
           new == {i \in DOMAIN static :
                     \A j \in DOMAIN grants : Key(grants[j]) # Key(static[i])}
       IN  grants' = grants \o Keep(static, new)
    /\ pc' = "nih_index"
    /\ UNCHANGED <<now, runs, profile, force_refresh, web, idx, file,
                   sorted_grants, groups, status, started, baseline, collected, previous,
                   snapshot, args, result, fetches>>

ScrapeStatic ==
    /\ pc = "static"
    /\ grants' = grants \o Relevant(static_grants(now), profile)
    /\ pc' = "nih_index"
    /\ UNCHANGED <<now, runs, profile, force_refresh, web, idx, file,
                   sorted_grants, groups, status, started, baseline, collected, previous,
                   snapshot, args, result, fetches>>

\* scrape_nih_grants: the fetch of the index page
NihIndex ==
    /\ pc = "nih_index"
    /\ now' = now + FetchSeconds
    /\ IF web.nih.kind = "index" /\ web.nih.links # << >>
       THEN pc' = "nih_link" /\ idx' = 1
       ELSE pc' = "nsf_index" /\ idx' = 0
    /\ UNCHANGED <<runs, profile, force_refresh, web, grants, file,
                   sorted_grants, groups, status, started, baseline, collected, previous,
                   snapshot, args, result>>
    /\ fetches' = Append(fetches, Fetched("https://grants.nih.gov", now))

\* the loop body without the try/except around the fetch: the exception of a
\* failed fetch ends run()
NihLinkUncaught ==
    /\ pc = "nih_link"
    /\ LET links == Take(web.nih.links, NihLimit)
           link == links[idx]
           grant_url == urljoin("https://grants.nih.gov", link.href)
           fetched == now + FetchSeconds
           grant_data == parse_nih_grant_page(grant_url, link.doc, fetched)
       IN  /\ grants' = grants \o Relevant(grant_data, profile)
           /\ IF link.doc.kind = "error"
              THEN /\ now' = fetched
                   /\ status' = "raised"
                   /\ pc' = "idle" /\ idx' = 0
              ELSE /\ now' = fetched + LinkSleep
                   /\ status' = status
                   /\ IF idx < Len(links)
                      THEN pc' = "nih_link" /\ idx' = idx + 1
                      ELSE pc' = "nsf_index" /\ idx' = 0
    /\ UNCHANGED <<runs, profile, force_refresh, web, file,
                   sorted_grants, groups, started, baseline, collected, previous,
                   snapshot, args, result>>
    /\ fetches' = Append(fetches, Fetched("https://grants.nih.gov", now))

\* scrape_nih_grants: one link of grant_links[:20]
NihLink ==
    /\ pc = "nih_link"
    /\ LET links == Take(web.nih.links, NihLimit)
           link == links[idx]
           grant_url == urljoin("https://grants.nih.gov", link.href)
           fetched == now + FetchSeconds
           grant_data == parse_nih_grant_page(grant_url, link.doc, fetched)
       IN  /\ grants' = grants \o Relevant(grant_data, profile)
           /\ now' = fetched + LinkSleep
           /\ IF idx < Len(links)
              THEN pc' = "nih_link" /\ idx' = idx + 1
              ELSE pc' = "nsf_index" /\ idx' = 0
    /\ UNCHANGED <<runs, profile, force_refresh, web, file,
                   sorted_grants, groups, status, started, baseline, collected, previous,
                   snapshot, args, result>>
    /\ fetches' = Append(fetches, Fetched("https://grants.nih.gov", now))

\* scrape_nsf_grants: the fetch of the funding page
NsfIndex ==
    /\ pc = "nsf_index"
    /\ now' = now + FetchSeconds
    /\ IF web.nsf.kind = "index" /\ web.nsf.links # << >>
       THEN pc' = "nsf_link" /\ idx' = 1
       ELSE pc' = "foundation" /\ idx' = 1
    /\ UNCHANGED <<runs, profile, force_refresh, web, grants, file,
                   sorted_grants, groups, status, started, baseline, collected, previous,
                   snapshot, args, result>>
    /\ fetches' = Append(fetches, Fetched("https://www.nsf.gov", now))

\* scrape_nsf_grants: one link of funding_links[:15]
NsfLink ==
    /\ pc = "nsf_link"
    /\ LET links == Take(web.nsf.links, NsfLimit)
           link == links[idx]
           grant_url == urljoin("https://www.nsf.gov", link.href)
           parsed == is_nsf_grant_page(grant_url)
           fetched == IF parsed THEN now + FetchSeconds ELSE now
           grant_data == IF parsed
                         THEN parse_nsf_grant_page(grant_url, link.doc, fetched)
                         ELSE << >>
       IN  /\ grants' = grants \o Relevant(grant_data, profile)
           /\ now' = fetched + LinkSleep
           /\ IF idx < Len(links)
              THEN pc' = "nsf_link" /\ idx' = idx + 1
              ELSE pc' = "foundation" /\ idx' = 1
    /\ UNCHANGED <<runs, profile, force_refresh, web, file,
                   sorted_grants, groups, status, started, baseline, collected, previous,
                   snapshot, args, result>>
    /\ fetches' = IF is_nsf_grant_page(urljoin("https://www.nsf.gov",
                                               Take(web.nsf.links, NsfLimit)[idx].href))
                   THEN Append(fetches, Fetched("https://www.nsf.gov", now))
                   ELSE fetches

\* scrape_foundation_grants: one foundation of the loop
ScrapeFoundation ==
    /\ pc = "foundation"
    /\ LET fetched == now + FetchSeconds
       IN  /\ grants' = grants \o scrape_foundation_page(foundations[idx],
                                                         web.foundation[idx], fetched)
           /\ now' = fetched + FoundationSleep
    /\ IF idx < Len(foundations)
       THEN pc' = "foundation" /\ idx' = idx + 1
       ELSE pc' = "merge" /\ idx' = 0
    /\ UNCHANGED <<runs, profile, force_refresh, web, file,
                   sorted_grants, groups, status, started, baseline, collected, previous,
                   snapshot, args, result>>
    /\ fetches' = Append(fetches, Fetched(foundations[idx].url, now))

(***************************************************************************)
(* run(): merge, classification, ranking, save                             *)
(***************************************************************************)
\* "Remove duplicates based on title and agency"
MergeGrants ==
    /\ pc = "merge"
    /\ collected' = grants
    /\ grants' = Merge(grants)
    /\ pc' = "classify"
    /\ UNCHANGED <<now, runs, profile, force_refresh, web, idx, file,
                   sorted_grants, groups, status, started, baseline, previous,
                   snapshot, args, result, fetches>>

\* "Calculate urgency for all grants"
Classify ==
    /\ pc = "classify"
    /\ grants' = WithUrgency(grants, now)
    /\ pc' = "rank"
    /\ UNCHANGED <<now, runs, profile, force_refresh, web, idx, file,
                   sorted_grants, groups, status, started, baseline, collected, previous,
                   snapshot, args, result, fetches>>

\* run() with save_grants() called ahead of generate_html_website
RankAfterSaving ==
    /\ pc = "rank"
    /\ grants' = WithUrgency(grants, now)
    /\ file' = written(grants)
    /\ IF \E i \in DOMAIN grants : KeyRaises(grants[i])
       THEN /\ status' = "raised"
            /\ pc' = "idle"
            /\ UNCHANGED <<sorted_grants, groups>>
       ELSE /\ sorted_grants' = Sorted(grants')
            /\ groups' = [urgent |-> urgent_grants(sorted_grants'),
                          upcoming |-> upcoming_grants(sorted_grants'),
                          future |-> future_grants(sorted_grants')]
            /\ pc' = "save"
            /\ UNCHANGED status
    /\ UNCHANGED <<now, runs, profile, force_refresh, web, idx,
                   started, baseline, collected, previous, snapshot, args, result, fetches>>

\* generate_html_website (and generate_rss_feed, which sorts by the same key):
\* min() of an empty list raises ValueError, which ends run()
Rank ==
    /\ pc = "rank"
    /\ grants' = WithUrgency(grants, now)
    /\ IF \E i \in DOMAIN grants : KeyRaises(grants[i])
       THEN /\ status' = "raised"
            /\ pc' = "idle"
            /\ UNCHANGED <<sorted_grants, groups>>
       ELSE /\ sorted_grants' = Sorted(grants')
            /\ groups' = [urgent |-> urgent_grants(sorted_grants'),
                          upcoming |-> upcoming_grants(sorted_grants'),
                          future |-> future_grants(sorted_grants')]
            /\ pc' = "save"
            /\ UNCHANGED status
    /\ UNCHANGED <<now, runs, profile, force_refresh, web, idx, file,
                   started, baseline, collected, previous,
                   snapshot, args, result, fetches>>

\* save_grants
SaveGrants ==
    /\ pc = "save"
    /\ file' = written(grants)
    /\ status' = "ok"
    /\ pc' = "idle"
    /\ UNCHANGED <<now, runs, profile, force_refresh, web, grants, idx,
                   sorted_grants, groups, started, baseline, collected, previous,
                   snapshot, args, result, fetches>>

\* save_grants when the write raises (OSError, no space left on device):
\* open(..., 'w') has emptied the file and json.dump has written the text up
\* to some point, here none of it or all of it but its end; nothing catches
\* the exception
SaveGrantsFails ==
    /\ pc = "save"
    /\ \E k \in {0, Len(grants)} :
          file' = [exists |-> TRUE, complete |-> FALSE,
                   data |-> SubSeq(written(grants).data, 1, k)]
    /\ status' = "raised"
    /\ pc' = "idle"
    /\ UNCHANGED <<now, runs, profile, force_refresh, web, grants, idx,
                   sorted_grants, groups, started, baseline, collected, previous,
                   snapshot, args, result, fetches>>

Next ==
    \/ Start
    \/ ScrapeStatic
    \/ NihIndex
    \/ NihLink
    \/ NsfIndex
    \/ NsfLink
    \/ ScrapeFoundation
    \/ MergeGrants
    \/ Classify
    \/ Rank
    \/ SaveGrants
    \/ SaveGrantsFails

Spec == Init /\ [][Next]_vars

(***************************************************************************)
(* Classification and ranking on their own: the state right after the      *)
(* merge, with the merged records drawn from a bounded set, followed by     *)
(* the rest of run()                                                       *)
(***************************************************************************)
\* records in one merged set
MaxRanked == 3

\* days from the start of the run to a deadline
RankDays == {-1, 0, 30, 31, 90, 91, 180, 181, 365, 366}

RankDeadlines ==
    {<< >>}
        \cup {<<FirstStart + Days(k)>> : k \in RankDays}
        \cup {<<FirstStart + Days(366), FirstStart + Days(30)>>,
              <<FirstStart + Days(31), FirstStart + Days(200)>>}

RankTitles == <<"Brain Study A", "Brain Study B", "Brain Study C", "Brain Study D">>

RankGrant(i, deadlines) ==
    Grant(RankTitles[i], "NIH", "https://grants.nih.gov/grants/guide/", deadlines,
          << >>, "", FirstStart, "nih", << >>)

\* the merged sets of up to limit records
RankInputs(limit) ==
    UNION { { [i \in 1..n |-> RankGrant(i, ds[i])] : ds \in [1..n -> RankDeadlines] }
            : n \in 0..limit }

RankInit ==
    /\ now \in {FirstStart, FirstStart + 1}
    /\ pc = "classify"
    /\ runs = 1
    /\ profile \in {pr \in Profiles : pr.career_stage = "postdoc"}
    /\ force_refresh = FALSE
    /\ web = AllDown
    /\ grants \in RankInputs(MaxRanked)
    /\ idx = 0
    /\ file = [exists |-> FALSE, complete |-> FALSE, data |-> << >>]
    /\ sorted_grants = << >>
    /\ groups = NoGroups
    /\ status = "running"
    /\ started = FirstStart
    /\ baseline = << >>
    /\ collected = grants
    /\ previous = << >>
    /\ snapshot = file
    /\ args = << >>
    /\ result = << >>
    /\ fetches = << >>

RankNext ==
    \/ Classify
    \/ Rank
    \/ SaveGrants

SpecRank == RankInit /\ [][RankNext]_vars

(***************************************************************************)
(* is_relevant_grant called on its own, with the record and the profile     *)
(* drawn from bounded sets                                                 *)
(***************************************************************************)
RelevanceTitles == {"Brain Imaging Award", "Mathematics Prize"}

RelevanceDescriptions ==
    {"", "A Fellowship in Cognitive Science.", "Support for statisticians."}

RelevanceEligibility ==
    { << >>, <<"postdoc">>, <<"graduate student", "phd">>, <<"doc">>,
      <<"senior postdoctoral fellow", "professor">> }

RelevanceProfiles ==
    Profiles
        \cup { [research_areas |-> <<"fellowship">>, career_stage |-> "postdoc"],
               [research_areas |-> <<"genomics", "cognitive science">>,
                career_stage |-> "assistant professor"],
               [research_areas |-> <<"genomics">>, career_stage |-> ""] }

RelevanceInit ==
    /\ now = FirstStart
    /\ pc = "call"
    /\ runs = 0
    /\ profile \in RelevanceProfiles
    /\ force_refresh = FALSE
    /\ web = AllDown
    /\ grants = << >>
    /\ idx = 0
    /\ file = [exists |-> FALSE, complete |-> FALSE, data |-> << >>]
    /\ sorted_grants = << >>
    /\ groups = NoGroups
    /\ status = "none"
    /\ started = FirstStart
    /\ baseline = << >>
    /\ collected = << >>
    /\ previous = << >>
    /\ snapshot = file
    /\ \E title \in RelevanceTitles, description \in RelevanceDescriptions,
          eligibility \in RelevanceEligibility :
          args = [grant |-> Grant(title, "NIH", "https://grants.nih.gov/", << >>,
                                  << >>, description, now, "static", eligibility)]
    /\ result = << >>
    /\ fetches = << >>

\* self.is_relevant_grant(grant)
CallIsRelevant ==
    /\ pc = "call"
    /\ result' = <<is_relevant_grant(args.grant, profile)>>
    /\ pc' = "return"
    /\ UNCHANGED <<now, runs, profile, force_refresh, web, grants, idx, file,
                   sorted_grants, groups, status, started, baseline, collected,
                   previous, snapshot, args, fetches>>

RelevanceNext == CallIsRelevant

SpecRelevance == RelevanceInit /\ [][RelevanceNext]_vars

(***************************************************************************)
(* generate_recurring_deadlines called on its own: every "Month Day" string *)
(* at a number of times of the year                                        *)
(***************************************************************************)
MonthWords ==
    <<"January", "February", "March", "April", "May", "June", "July",
      "August", "September", "October", "November", "December">>

\* the days a month can have
MonthDays == {<<m, d>> \in (1..12) \X (1..31) : d <= DaysInMonth(2024, m)}

\* f"{month} {day}"
MonthDayString(m, d) == MonthWords[m] \o " " \o ToString(d)

RecurringTimes ==
    { DateTime(2025, 3, 1), DateTime(2025, 5, 1), DateTime(2025, 4, 8),
      DateTime(2025, 4, 8) - 1, FirstStart + 3600, DateTime(2024, 1, 1),
      DateTime(2024, 3, 1), DateTime(2028, 1, 1) - 1 }

RecurringInit ==
    /\ now \in RecurringTimes
    /\ pc = "call"
    /\ runs = 0
    /\ profile \in {pr \in Profiles : pr.career_stage = "postdoc"}
    /\ force_refresh = FALSE
    /\ web = AllDown
    /\ grants = << >>
    /\ idx = 0
    /\ file = [exists |-> FALSE, complete |-> FALSE, data |-> << >>]
    /\ sorted_grants = << >>
    /\ groups = NoGroups
    /\ status = "none"
    /\ started = FirstStart
    /\ baseline = << >>
    /\ collected = << >>
    /\ previous = << >>
    /\ snapshot = file
    /\ \E md \in MonthDays :
          args = [date_strings |-> <<MonthDayString(md[1], md[2])>>,
                  month |-> md[1], day |-> md[2]]
    /\ result = << >>
    /\ fetches = << >>

\* self.generate_recurring_deadlines(date_strings)
CallRecurring ==
    /\ pc = "call"
    /\ result' = generate_recurring_deadlines(args.date_strings, now)
    /\ pc' = "return"
    /\ UNCHANGED <<now, runs, profile, force_refresh, web, grants, idx, file,
                   sorted_grants, groups, status, started, baseline, collected,
                   previous, snapshot, args, fetches>>

RecurringNext == CallRecurring

SpecRecurring == RecurringInit /\ [][RecurringNext]_vars

(***************************************************************************)
(* One run over index pages and a foundation page that hold about as many  *)
(* links and sections as the collectors inspect, or more                   *)
(***************************************************************************)
\* links and sections beyond the number inspected
ExtraLinks == 1

CrowdedWeb(n, m, k) ==
    [nih |-> Index([i \in 1..n |->
                Link("/grants/guide/pa-files/PA-26-" \o ToString(i) \o ".html",
                     NihDocAward)]),
     nsf |-> Index([i \in 1..m |->
                Link("/funding/opportunities/" \o ToString(i), NsfDocSolicitation)]),
     foundation |->
        << FoundationPage([i \in 1..k |->
                Section(<<"Research Grant " \o ToString(i)>>,
                        "Research Grant. Deadline: March 10, 2026.",
                        <<DateToken("March", 10, TRUE, 2026)>>, << >>)]),
           FetchError, FoundationPage(<< >>) >>]

CrowdedWebs ==
    { CrowdedWeb(n, m, k) :
        n \in {NihLimit - 1, NihLimit, NihLimit + ExtraLinks},
        m \in {NsfLimit - 1, NsfLimit, NsfLimit + ExtraLinks},
        k \in {SectionLimit - 1, SectionLimit, SectionLimit + ExtraLinks} }

\* a first run, right after the baseline was found empty
CollectInit ==
    /\ now = FirstStart
    /\ pc = "static"
    /\ runs = 1
    /\ profile \in Profiles
    /\ force_refresh = FALSE
    /\ web \in CrowdedWebs
    /\ grants = << >>
    /\ idx = 0
    /\ file = [exists |-> FALSE, complete |-> FALSE, data |-> << >>]
    /\ sorted_grants = << >>
    /\ groups = NoGroups
    /\ status = "running"
    /\ started = FirstStart
    /\ baseline = << >>
    /\ collected = << >>
    /\ previous = << >>
    /\ snapshot = file
    /\ args = << >>
    /\ result = << >>
    /\ fetches = << >>

CollectNext ==
    \/ ScrapeStatic
    \/ NihIndex
    \/ NihLink
    \/ NsfIndex
    \/ NsfLink
    \/ ScrapeFoundation
    \/ MergeGrants
    \/ Classify
    \/ Rank
    \/ SaveGrants
    \/ SaveGrantsFails

SpecCollect == CollectInit /\ [][CollectNext]_vars

(***************************************************************************)
(* Properties of the merge                                                 *)
(***************************************************************************)
\* the merge of the current run has taken place
Merged ==
    \/ pc \in {"classify", "rank", "save"}
    \/ pc = "idle" /\ status \in {"ok", "raised"}

\* the identity key of the specification: title lowercased and trimmed,
\* agency lowercased
SameIdentity(a, b) ==
    /\ Strip(Lower(a.title)) = Strip(Lower(b.title))
    /\ Lower(a.agency) = Lower(b.agency)

\* the records collected in this run: self.grants after the baseline
FreshIndices == (Len(baseline) + 1)..Len(collected)

\* the records of collected that share the identity key of g
Group(g) == {i \in DOMAIN collected : SameIdentity(collected[i], g)}

GroupMax(g) ==
    CHOOSE m \in {collected[i].last_updated : i \in Group(g)} :
        \A i \in Group(g) : collected[i].last_updated <= m

\* C1: after the merge step of run(), no two records of the merged set share
\* the identity key (title lowercased and trimmed, agency lowercased)
C1_IdentityKeyUnique ==
    Merged =>
        \A i, j \in DOMAIN grants :
            i # j => ~SameIdentity(grants[i], grants[j])

\* C1 witness: two collected records whose titles differ in case share a key,
\* and the merge has run
C1_Witness ==
    /\ pc = "classify"
    /\ \E i, j \in DOMAIN collected :
          /\ i # j
          /\ collected[i].title # collected[j].title
          /\ SameIdentity(collected[i], collected[j])

\* C2: right after the merge, every collected record is represented by a
\* survivor of its identity key, the survivor is one of the collected records
\* and carries the greatest last_updated of its group; a group of one baseline
\* record and one later fresh record is survived by the fresh record, whole
C2_NewestSurvives ==
    pc = "classify" =>
        /\ \A i \in DOMAIN collected :
              \E j \in DOMAIN grants :
                  /\ SameIdentity(grants[j], collected[i])
                  /\ grants[j].last_updated = GroupMax(collected[i])
                  /\ \E k \in Group(collected[i]) : grants[j] = collected[k]
        /\ \A b \in DOMAIN baseline, f \in FreshIndices :
              ( /\ Group(baseline[b]) = {b, f}
                /\ collected[f].last_updated > baseline[b].last_updated )
              => /\ \E j \in DOMAIN grants : grants[j] = collected[f]
                 /\ \A j \in DOMAIN grants : grants[j] # baseline[b]

\* C2 witness: a baseline record and a later fresh record with the same key
\* and different deadlines have been merged
C2_Witness ==
    /\ pc = "classify"
    /\ \E b \in DOMAIN baseline, f \in FreshIndices :
          /\ Group(baseline[b]) = {b, f}
          /\ collected[f].last_updated > baseline[b].last_updated
          /\ collected[f].deadlines # baseline[b].deadlines
          /\ collected[f].source_type # baseline[b].source_type

\* the first record of its group that carries the group's greatest last_updated
FirstNewest(g) ==
    CHOOSE i \in Group(g) :
        /\ collected[i].last_updated = GroupMax(g)
        /\ \A k \in Group(g) :
              collected[k].last_updated = GroupMax(g) => i <= k

SourceRank(source_type) ==
    CASE source_type = "static" -> 1
      [] source_type = "nih" -> 2
      [] source_type = "nsf" -> 3
      [] source_type = "foundation" -> 4

\* C3: among the records of a group that carry its greatest last_updated the
\* merge keeps the one seen first, the iteration order being the baseline
\* followed by the fresh records of the static catalog, NIH, NSF and the
\* foundations
C3_TiesKeepFirstSeen ==
    pc = "classify" =>
        /\ \A j \in DOMAIN grants : grants[j] = collected[FirstNewest(grants[j])]
        /\ SubSeq(collected, 1, Len(baseline)) = baseline
        /\ \A i, k \in FreshIndices :
              i < k => SourceRank(collected[i].source_type)
                          <= SourceRank(collected[k].source_type)

\* C3 witness: two different records of one key tie on the greatest
\* last_updated, and a static and a scraped record share a key
C3_Witness ==
    /\ pc = "classify"
    /\ \E i, k \in DOMAIN collected :
          /\ i < k
          /\ SameIdentity(collected[i], collected[k])
          /\ collected[i] # collected[k]
          /\ collected[i].last_updated = GroupMax(collected[i])
          /\ collected[k].last_updated = GroupMax(collected[i])
    /\ \E i, k \in FreshIndices :
          /\ SameIdentity(collected[i], collected[k])
          /\ collected[i].source_type = "static"
          /\ collected[k].source_type = "foundation"

\* the records of this run's collectors
Fresh == {collected[i] : i \in FreshIndices}

\* a persisted record the window drops: not strictly later than 7 days before
\* the start of the run
Stale(e) == ~(e.last_updated > started - Days(7))

\* C4: with force-refresh off, a persisted record that is not strictly later
\* than (run time - 7 days) and whose key no collector produces in this run is
\* absent from the merged output and from the snapshot the run writes
C4_StaleRecordsPruned ==
    (Merged /\ ~force_refresh) =>
        \A p \in DOMAIN previous :
            (Stale(previous[p]) /\ \A f \in Fresh : ~SameIdentity(f, previous[p]))
            => /\ \A j \in DOMAIN grants : ~SameIdentity(grants[j], previous[p])
               /\ status = "ok" =>
                     \A j \in DOMAIN file.data :
                         ~SameIdentity(file.data[j], previous[p])

\* C4 witness: a run has written its snapshot after dropping a record last
\* updated exactly 7 days before its start, which no collector produced again,
\* while a younger record of the baseline was kept
C4_Witness ==
    /\ pc = "idle" /\ status = "ok" /\ ~force_refresh
    /\ \E p \in DOMAIN previous :
          /\ previous[p].last_updated = started - Days(7)
          /\ \A f \in Fresh : ~SameIdentity(f, previous[p])
    /\ \E p \in DOMAIN previous :
          /\ previous[p].last_updated > started - Days(7)
          /\ \E j \in DOMAIN file.data : Deserialized(file.data[j]).last_updated
                                            = previous[p].last_updated

(***************************************************************************)
(* Properties of the extracted fields                                      *)
(***************************************************************************)
\* C5: in every record of the merged output of a run, every deadline is
\* strictly later than the time the run started collecting
C5_NoPastDeadlines ==
    Merged =>
        \A i \in DOMAIN grants :
            \A k \in DOMAIN grants[i].deadlines : grants[i].deadlines[k] > started

\* the values of the captured tokens that are integers within lo..hi
Accepted(tokens, lo, hi) ==
    LET digits(tok) == RemoveChar(RemoveChar(tok, ","), "$")
    IN  { DecimalValue(digits(tokens[k])) :
            k \in { n \in DOMAIN tokens :
                      /\ digits(tokens[n]) # ""
                      /\ AllDigits(digits(tokens[n]))
                      /\ lo <= DecimalValue(digits(tokens[n]))
                      /\ DecimalValue(digits(tokens[n])) <= hi } }

\* the tokens captured on the page a record of this run was built from
TokensOf(g) ==
    CASE g.source_type = "nih" ->
            UNION { {web.nih.links[k].doc.amounts} :
                      k \in { n \in DOMAIN web.nih.links :
                                urljoin("https://grants.nih.gov", web.nih.links[n].href)
                                    = g.url } }
      [] g.source_type = "nsf" ->
            UNION { {web.nsf.links[k].doc.amounts} :
                      k \in { n \in DOMAIN web.nsf.links :
                                urljoin("https://www.nsf.gov", web.nsf.links[n].href)
                                    = g.url } }
      [] g.source_type = "foundation" ->
            UNION { { web.foundation[f].sections[k].amounts :
                        k \in { n \in DOMAIN web.foundation[f].sections :
                                  /\ web.foundation[f].sections[n].heading # << >>
                                  /\ Strip(web.foundation[f].sections[n].heading[1])
                                        = g.title } } :
                      f \in { n \in DOMAIN foundations :
                                /\ foundations[n].url = g.url
                                /\ web.foundation[n].kind = "page" } }

AmountLow(source_type) == IF source_type = "nsf" THEN 5000 ELSE 1000
AmountHigh(source_type) == IF source_type = "nsf" THEN 5000000 ELSE 10000000

PageSources == {"nih", "nsf", "foundation"}

\* C6: every amount of a record of a page collector lies in the range of its
\* source type, [1000, 10000000] for NIH and foundations and [5000, 5000000]
\* for NSF, and is the value of a captured token that is an integer in range
C6_AmountsWithinBounds ==
    \A i \in DOMAIN grants :
        grants[i].source_type \in PageSources =>
            /\ \A k \in DOMAIN grants[i].amounts :
                  /\ AmountLow(grants[i].source_type) <= grants[i].amounts[k]
                  /\ grants[i].amounts[k] <= AmountHigh(grants[i].source_type)
            /\ (pc # "idle" /\ grants[i].last_updated >= started) =>
                  \E tokens \in TokensOf(grants[i]) :
                      Range(grants[i].amounts)
                          \subseteq Accepted(tokens, AmountLow(grants[i].source_type),
                                             AmountHigh(grants[i].source_type))

\* C6 witness: an NIH record built from a page with tokens above the range and
\* tokens that are no integers, and an NSF record built from a page with
\* tokens just outside 5000..5000000, each holding the values at the ends
C6_Witness ==
    /\ pc = "merge"
    /\ \E i, j \in DOMAIN grants :
          /\ grants[i].source_type = "nih" /\ grants[i].last_updated >= started
          /\ {"10,000,001", "1,000.00", ","}
                \subseteq UNION {Range(t) : t \in TokensOf(grants[i])}
          /\ grants[i].amounts = <<10000000>>
          /\ grants[j].source_type = "nsf" /\ grants[j].last_updated >= started
          /\ {"4,999", "5,000,001"}
                \subseteq UNION {Range(t) : t \in TokensOf(grants[j])}
          /\ grants[j].amounts = <<5000, 5000000>>

(***************************************************************************)
(* Properties of the classification and the ranking                        *)
(***************************************************************************)
\* the tier the specification gives to a number of whole days
TierOfDays(days_until) ==
    IF days_until <= 30 THEN 5
    ELSE IF days_until <= 90 THEN 4
    ELSE IF days_until <= 180 THEN 3
    ELSE IF days_until <= 365 THEN 2
    ELSE 1

\* whole days from now to the earliest deadline
DaysUntil(g) == DaysBetween(Min(g.deadlines), now)

\* C7: calculate_urgency gives 0 to a record without deadlines and otherwise
\* 5, 4, 3, 2, 1 for days_until <= 30, 31..90, 91..180, 181..365, >= 366,
\* days_until being the whole days from now to the earliest deadline
C7_UrgencyTiers ==
    pc \in {"rank", "save"} =>
        \A i \in DOMAIN grants :
            /\ grants[i].urgency \in 0..5
            /\ grants[i].deadlines = << >> => grants[i].urgency = 0
            /\ grants[i].deadlines # << >> =>
                  grants[i].urgency = TierOfDays(DaysUntil(grants[i]))

\* C7 witness: classified records at 30 and 31 days and one without deadlines
C7_Witness ==
    /\ pc = "rank"
    /\ \E i, j, k \in DOMAIN grants :
          /\ grants[i].deadlines # << >> /\ DaysUntil(grants[i]) = 30
          /\ grants[i].urgency = 5
          /\ grants[j].deadlines # << >> /\ DaysUntil(grants[j]) = 31
          /\ grants[j].urgency = 4
          /\ grants[k].deadlines = << >> /\ grants[k].urgency = 0

\* C8: the sorted sequence is ordered by tier descending and, within a tier,
\* by nearest deadline ascending
C8_SoonestFirstWithinTier ==
    pc = "save" =>
        \A i, j \in DOMAIN sorted_grants :
            i < j =>
                \/ sorted_grants[i].urgency > sorted_grants[j].urgency
                \/ /\ sorted_grants[i].urgency = sorted_grants[j].urgency
                   /\ Min(sorted_grants[i].deadlines) <= Min(sorted_grants[j].deadlines)

\* C9: a merged set holding a record without deadlines is ranked without
\* raising, that record placed after every record with a deadline, and the
\* snapshot is written
C9_EmptyDeadlinesRanked ==
    ( /\ pc = "idle" /\ status # "none"
      /\ \E i \in DOMAIN grants : grants[i].deadlines = << >> )
    => /\ status = "ok"
       /\ file = written(grants)
       /\ \A i, j \in DOMAIN sorted_grants :
             ( /\ sorted_grants[i].deadlines = << >>
               /\ sorted_grants[j].deadlines # << >> ) => j < i

\* the records of sorted_grants that a bucket must hold
InBucket(name, g) ==
    CASE name = "urgent" -> g.urgency >= 4
      [] name = "upcoming" -> 2 <= g.urgency /\ g.urgency < 4
      [] name = "future" -> g.urgency < 2

Buckets == {"urgent", "upcoming", "future"}

\* bucket is the subsequence of sorted_grants at the indices of members
IsSubsequenceAt(bucket, members) ==
    /\ Len(bucket) = Cardinality(members)
    /\ \A k \in DOMAIN bucket :
          \E i \in members :
              /\ bucket[k] = sorted_grants[i]
              /\ Cardinality({m \in members : m < i}) = k - 1

\* C10: the three buckets partition the sorted sequence by tier (urgent iff
\* tier >= 4, upcoming iff 2 <= tier < 4, future iff tier < 2), each record in
\* exactly one bucket and each bucket in the order of the sorted sequence
C10_BucketsPartition ==
    pc = "save" =>
        /\ \A name \in Buckets :
              IsSubsequenceAt(groups[name],
                              {i \in DOMAIN sorted_grants :
                                  InBucket(name, sorted_grants[i])})
        /\ \A i \in DOMAIN sorted_grants :
              Cardinality({name \in Buckets :
                              \E k \in DOMAIN groups[name] :
                                  groups[name][k] = sorted_grants[i]}) = 1
        /\ Len(groups.urgent) + Len(groups.upcoming) + Len(groups.future)
              = Len(sorted_grants)

\* C10 witness: a ranked set with a record in each bucket
C10_Witness ==
    /\ pc = "save"
    /\ Len(sorted_grants) = 3
    /\ \E i, j, k \in DOMAIN sorted_grants :
          /\ sorted_grants[i].urgency = 4 /\ groups.urgent = <<sorted_grants[i]>>
          /\ sorted_grants[j].urgency = 2 /\ groups.upcoming = <<sorted_grants[j]>>
          /\ sorted_grants[k].urgency = 1 /\ groups.future = <<sorted_grants[k]>>

(***************************************************************************)
(* Properties of the relevance filter and of the collectors                *)
(***************************************************************************)
\* the domain terms of the specification
DomainTerms ==
    {"brain", "neural", "neuroscience", "cognitive", "behavior", "fmri", "eeg",
     "imaging", "psychology", "psychiatry", "mental health"}

\* the relevance of the specification, by its parts
area_or_domain(g) ==
    LET text == Lower(g.title \o " " \o g.description)
    IN  \/ \E a \in Range(profile.research_areas) : Contains(text, a)
        \/ \E term \in DomainTerms : Contains(text, term)

stage_fits(g) ==
    \/ g.eligibility = << >>
    \/ \E tag \in Range(g.eligibility) :
          \/ Contains(tag, profile.career_stage)
          \/ Contains(profile.career_stage, tag)

\* C11: is_relevant_grant returns (area_match OR neuro_match) AND career_match,
\* career_match being true without eligibility tags and otherwise true iff the
\* career stage is a substring of some tag or some tag of the career stage; a
\* record without tags whose description contains a research area is relevant
\* whatever the career stage, and a record tagged only 'postdoc' is not
\* relevant for the career stage 'graduate student'
C11_RelevanceFormula ==
    pc = "return" =>
        LET g == args.grant
            text == Lower(g.title \o " " \o g.description)
            area_match == \E a \in Range(profile.research_areas) : Contains(text, a)
            neuro_match == \E term \in DomainTerms : Contains(text, term)
            career_match ==
                \/ g.eligibility = << >>
                \/ \E tag \in Range(g.eligibility) :
                      \/ Contains(tag, profile.career_stage)
                      \/ Contains(profile.career_stage, tag)
        IN  /\ result = <<(area_match \/ neuro_match) /\ career_match>>
            /\ ( /\ g.eligibility = << >>
                 /\ \E a \in Range(profile.research_areas) :
                       Contains(Lower(g.description), a) )
               => result = <<TRUE>>
            /\ (g.eligibility = <<"postdoc">> /\ profile.career_stage = "graduate student")
               => result = <<FALSE>>

\* C11 witness: a record tagged only 'postdoc' whose description holds the
\* configured area has been rejected for the career stage 'graduate student'
C11_Witness ==
    /\ pc = "return"
    /\ args.grant.eligibility = <<"postdoc">>
    /\ profile.career_stage = "graduate student"
    /\ \E a \in Range(profile.research_areas) :
          Contains(Lower(args.grant.description), a)
    /\ result = <<FALSE>>

\* run() is collecting, or has collected and not yet merged
Collecting ==
    pc \in {"nih_index", "nih_link", "nsf_index", "nsf_link", "foundation", "merge"}

\* C12: every record a collector of this run (the static catalog, NIH, NSF, the
\* foundations) has added to the accumulating collection passes
\* is_relevant_grant
C12_FreshRecordsRelevant ==
    Collecting =>
        \A i \in (Len(baseline) + 1)..Len(grants) :
            (area_or_domain(grants[i]) /\ stage_fits(grants[i]))

\* C13: for a 'Month Day' string generate_recurring_deadlines returns exactly
\* one date, strictly later than now: that month and day of the current year
\* if it is later than now, of the following year otherwise
C13_RecurrenceRollsForward ==
    pc = "return" =>
        /\ Len(result) = Len(args.date_strings)
        /\ \A k \in DOMAIN result :
              /\ result[k] > now
              /\ \E y \in {YearOf(now), YearOf(now) + 1} :
                    /\ args.day <= DaysInMonth(y, args.month)
                    /\ result[k] = DateTime(y, args.month, args.day)
                    /\ y = YearOf(now) <=> DateTime(YearOf(now), args.month, args.day) > now

(***************************************************************************)
(* Properties of the handling of failures                                  *)
(***************************************************************************)
\* the run() in progress has ended, by returning or by an exception
Ended == pc = "idle" /\ status \in {"ok", "raised"}

\* the pages of a collector's links that were served
PagesServed(index, limit) ==
    IF index.kind = "index"
    THEN {k \in DOMAIN Take(index.links, limit) : index.links[k].doc.kind = "page"}
    ELSE {}

\* a fetch of the run has failed
SomeFetchFailed ==
    \/ web.nih.kind = "error" \/ web.nsf.kind = "error"
    \/ \E f \in DOMAIN web.foundation : web.foundation[f].kind = "error"
    \/ web.nih.kind = "index" /\ \E k \in DOMAIN web.nih.links :
                                      web.nih.links[k].doc.kind = "error"
    \/ web.nsf.kind = "index" /\ \E k \in DOMAIN web.nsf.links :
                                      web.nsf.links[k].doc.kind = "error"

\* every page that was served, before or after a failed fetch, has been
\* processed: its record, if relevant, is among the records collected
ServedPagesProcessed ==
    /\ \A k \in PagesServed(web.nih, NihLimit) :
          LET url == urljoin("https://grants.nih.gov", web.nih.links[k].href)
              g == parse_nih_grant_page(url, web.nih.links[k].doc, started)[1]
          IN  (area_or_domain(g) /\ stage_fits(g)) =>
                  \E c \in Fresh : /\ c.url = url /\ c.title = g.title
                                   /\ c.source_type = "nih"
    /\ \A k \in PagesServed(web.nsf, NsfLimit) :
          LET url == urljoin("https://www.nsf.gov", web.nsf.links[k].href)
              g == parse_nsf_grant_page(url, web.nsf.links[k].doc, started)[1]
          IN  (area_or_domain(g) /\ stage_fits(g)) =>
                  \E c \in Fresh : /\ c.url = url /\ c.title = g.title
                                   /\ c.source_type = "nsf"
    /\ \A f \in DOMAIN foundations :
          web.foundation[f].kind = "page" =>
              \A k \in DOMAIN web.foundation[f].sections :
                  LET section == web.foundation[f].sections[k]
                  IN  ( /\ k <= 5
                        /\ section.heading # << >>
                        /\ section.dates # << >>
                        /\ \A d \in DOMAIN section.dates : section.dates[d].comma )
                      => \E c \in Fresh : /\ c.agency = foundations[f].name
                                          /\ c.title = Strip(section.heading[1])

\* C14: a failed fetch or page parse never ends the run: every page served
\* before or after it is processed, by its collector and by the later ones,
\* the merge takes place, and a run ends with an exception only when the
\* ranking raises on a record without deadlines or the write itself fails,
\* the snapshot being written otherwise
C14_FailuresContained ==
    Ended =>
        /\ ServedPagesProcessed
        /\ grants = WithUrgency(Merge(collected), now)
        /\ status = "raised" =>
              \/ \E i \in DOMAIN grants : grants[i].deadlines = << >>
              \/ /\ sorted_grants = Sorted(grants)
                 /\ file.exists /\ ~file.complete
        /\ status = "ok" => file = written(grants)

\* C14 witness: a run in which the fetch of a link failed and a later link of
\* the same collector and a later collector gave their records has written
\* its snapshot
C14_Witness ==
    /\ Ended /\ status = "ok" /\ file = written(grants)
    /\ SomeFetchFailed
    /\ \E k \in PagesServed(web.nih, NihLimit) :
          /\ \E j \in 1..(k - 1) : web.nih.links[j].doc.kind = "error"
          /\ \E c \in Fresh :
                c.url = urljoin("https://grants.nih.gov", web.nih.links[k].href)
    /\ \E c \in Fresh : c.source_type = "nsf"

\* the response carries a status outside 200..299
NotSuccess(doc) == doc.kind = "page" /\ ~(200 <= doc.status_code /\ doc.status_code <= 299)

\* C15: no record of this run is built from the body of a response with a
\* status outside 200..299, in the NIH, NSF and foundation collectors
C15_ErrorResponsesYieldNothing ==
    status = "running" =>
        \A i \in DOMAIN grants :
            grants[i].last_updated >= started =>
                /\ \A k \in PagesServed(web.nih, NihLimit) :
                      NotSuccess(web.nih.links[k].doc) =>
                          grants[i].url # urljoin("https://grants.nih.gov",
                                                  web.nih.links[k].href)
                /\ \A k \in PagesServed(web.nsf, NsfLimit) :
                      NotSuccess(web.nsf.links[k].doc) =>
                          grants[i].url # urljoin("https://www.nsf.gov",
                                                  web.nsf.links[k].href)
                /\ \A f \in DOMAIN foundations :
                      NotSuccess(web.foundation[f]) =>
                          ~( /\ grants[i].source_type = "foundation"
                             /\ grants[i].url = foundations[f].url )

(***************************************************************************)
(* Properties of the snapshot file                                         *)
(***************************************************************************)
\* C16: when the write of the snapshot fails the run ends with an error and
\* the file is as it was before the run or holds the whole new snapshot; it
\* never holds a part of one
C16_SnapshotNeverPartial ==
    /\ file.exists => file.complete
    /\ (Ended /\ status = "raised") => file \in {snapshot, written(grants)}

\* C17: the snapshot file changes only in the step that ends a run, after the
\* collectors, the merge, the classification and the ranking of that run, so
\* at most once in a run; a run that ends before that step leaves the file
\* as it was
C17_WrittenOnceAtTheEnd ==
    [][ /\ file' # file =>
              /\ pc = "save" /\ pc' = "idle" /\ status = "running"
              /\ ServedPagesProcessed
              /\ grants = WithUrgency(Merge(collected), now)
              /\ \A i \in DOMAIN grants : grants[i].urgency \in 0..5
              /\ sorted_grants = Sorted(grants)
              /\ groups = [urgent |-> urgent_grants(sorted_grants),
                           upcoming |-> upcoming_grants(sorted_grants),
                           future |-> future_grants(sorted_grants)]
        /\ (pc # "save" /\ pc' = "idle") => (status' = "raised" /\ file' = snapshot)
      ]_vars

\* C17 witness: a second run has ended in the ranking, before the write, and
\* the snapshot of the first run is still in the file
C17_Witness ==
    /\ Ended /\ status = "raised" /\ runs = 2
    /\ sorted_grants = << >>
    /\ snapshot.exists /\ snapshot.complete /\ snapshot.data # << >>
    /\ file = snapshot

\* C18: a run that finds no snapshot file starts from an empty baseline and
\* goes on as any other run, with the records it collects itself: loading
\* raises nothing
C18_MissingFileEmptyBaseline ==
    (status # "none" /\ ~snapshot.exists) =>
        /\ baseline = << >> /\ previous = << >>
        /\ \A i \in DOMAIN grants : grants[i].last_updated >= started
        /\ status = "raised" =>
              /\ Ended
              /\ \/ \E i \in DOMAIN grants : grants[i].deadlines = << >>
                 \/ /\ sorted_grants = Sorted(grants)
                    /\ file.exists /\ ~file.complete
        /\ (Ended /\ status = "ok") =>
              /\ grants = WithUrgency(Merge(collected), now)
              /\ file = written(grants)

\* C18 witness: a run that found no file has written the records it collected
C18_Witness ==
    /\ Ended /\ status = "ok"
    /\ ~snapshot.exists /\ ~force_refresh
    /\ grants # << >>
    /\ file = written(grants)

\* C19: in a run with the force-full-refresh flag set the baseline is empty:
\* every record of the run was collected in it, and a record of the persisted
\* snapshot whose key no collector produces is absent from the merged output
C19_ForceRefreshEmptyBaseline ==
    (status # "none" /\ force_refresh) =>
        /\ baseline = << >>
        /\ \A i \in DOMAIN grants : grants[i].last_updated >= started
        /\ Merged =>
              \A p \in DOMAIN previous :
                  (\A f \in Fresh : ~SameIdentity(f, previous[p]))
                  => \A j \in DOMAIN grants : ~SameIdentity(grants[j], previous[p])

\* C19 witness: a forced run has merged its records, and a record persisted
\* less than 7 days before, which no collector produced, is not among them
C19_Witness ==
    /\ Merged /\ force_refresh
    /\ grants # << >>
    /\ \E p \in DOMAIN previous :
          /\ previous[p].last_updated > started - Days(7)
          /\ \A f \in Fresh : ~SameIdentity(f, previous[p])
          /\ \A j \in DOMAIN grants : ~SameIdentity(grants[j], previous[p])

\* a record without its urgency, which every run computes anew
Persisted(g) == [g EXCEPT !.urgency = NoUrgency]

\* the record of the loaded snapshot was last updated within the window and
\* no collector of this run has produced its key
CarriedOver(p) ==
    /\ p.last_updated > started - Days(7)
    /\ \A f \in Fresh : ~SameIdentity(f, p)

\* C20: with force-refresh off, a persisted record that no collector produces
\* again and whose last_updated lies within 7 days of the start of the run is
\* in the snapshot the run leaves, with its original last_updated; a record
\* of the loaded snapshot is missing from the new one only when a newer
\* record of its key takes its place or when it has aged out
C20_PersistedRecordsCarriedOver ==
    (Ended /\ ~force_refresh /\ file # snapshot) =>
        \A p \in DOMAIN previous :
            /\ CarriedOver(previous[p]) =>
                  \E j \in DOMAIN file.data :
                      Persisted(Deserialized(file.data[j])) = Persisted(previous[p])
            /\ (\A j \in DOMAIN file.data :
                    Persisted(Deserialized(file.data[j])) # Persisted(previous[p]))
               => \/ ~(previous[p].last_updated > started - Days(7))
                  \/ \E j \in DOMAIN file.data :
                        /\ SameIdentity(Deserialized(file.data[j]), previous[p])
                        /\ Deserialized(file.data[j]).last_updated
                              > previous[p].last_updated

(***************************************************************************)
(* Properties of the fetches of a run                                      *)
(***************************************************************************)
\* the delay of the source type of a site: 1 second for NIH and NSF, 2 for
\* the foundations
DelayOf(origin) ==
    IF origin \in {"https://grants.nih.gov", "https://www.nsf.gov"} THEN 1 ELSE 2

\* C21: between two successive fetches of a run to the same site, the index
\* page and its first link included, the delay of the source type elapses
C21_DelayBetweenFetches ==
    \A i, j \in DOMAIN fetches :
        ( /\ i < j
          /\ fetches[i].origin = fetches[j].origin
          /\ \A k \in (i + 1)..(j - 1) : fetches[k].origin # fetches[i].origin )
        => fetches[j].sent - fetches[i].received >= DelayOf(fetches[i].origin)

\* the records of self.grants that a collector of this run has added
AddedBy(source_type) ==
    {i \in DOMAIN grants : /\ grants[i].source_type = source_type
                           /\ grants[i].last_updated >= started
                           /\ i > Len(baseline)}

\* the fetches of the run to a site
FetchesTo(origin) == {i \in DOMAIN fetches : fetches[i].origin = origin}

\* C22: however many links or sections a page holds, a run inspects at most
\* 20 NIH links, 15 NSF links and 5 sections of a foundation page, and adds
\* at most 20 NIH, 15 NSF and 5 records per foundation
C22_CandidatesBounded ==
    (status = "running" /\ pc \notin {"classify", "rank", "save"}) =>
        /\ Cardinality(FetchesTo("https://grants.nih.gov")) <= 1 + 20
        /\ Cardinality(FetchesTo("https://www.nsf.gov")) <= 1 + 15
        /\ Cardinality(AddedBy("nih")) <= 20
        /\ Cardinality(AddedBy("nsf")) <= 15
        /\ \A f \in DOMAIN foundations :
              Cardinality({i \in AddedBy("foundation") :
                              grants[i].agency = foundations[f].name}) <= 5

\* C22 witness: the collectors have gone through pages with more than 20 and
\* 15 links and more than 5 sections, and have added 20, 15 and 5 records
C22_Witness ==
    /\ pc = "merge"
    /\ Len(web.nih.links) > 20 /\ Cardinality(AddedBy("nih")) = 20
    /\ Len(web.nsf.links) > 15 /\ Cardinality(AddedBy("nsf")) = 15
    /\ Len(web.foundation[1].sections) > 5
    /\ Cardinality(AddedBy("foundation")) = 5

(***************************************************************************)
(* Further properties of the classification                                *)
(***************************************************************************)
\* the deadlines of a record that are still ahead
FutureDeadlines(g) == {d \in Range(g.deadlines) : d > now}

\* C23: the tier of a classified record that has a deadline ahead is the tier
\* of its nearest future deadline; a deadline already past does not
\* determine it
C23_NearestFutureDeadline ==
    pc \in {"rank", "save"} =>
        \A i \in DOMAIN grants :
            FutureDeadlines(grants[i]) # {} =>
                LET nearest == CHOOSE d \in FutureDeadlines(grants[i]) :
                                  \A e \in FutureDeadlines(grants[i]) : d <= e
                IN  grants[i].urgency = TierOfDays(DaysBetween(nearest, now))

(***************************************************************************)
(* Further properties of the records                                       *)
(***************************************************************************)
\* C24: every record of the merged output has a non-empty title, whichever
\* collector produced it
C24_TitlesNonEmpty ==
    Merged => \A i \in DOMAIN grants : grants[i].title # ""

\* a date token read under 'Month Day, Year' or else under 'Month Day Year'
UnderEitherFormat(tok) ==
    IF Strptime(tok, TRUE) # << >> THEN Strptime(tok, TRUE) ELSE Strptime(tok, FALSE)

\* the record holds every date of the tokens that is a date under one of the
\* two formats and lies after the time of the extraction
RetainsFutureDates(g, tokens) ==
    \A k \in DOMAIN tokens :
        LET date == UnderEitherFormat(tokens[k])
        IN  (date # << >> /\ date[1] > g.last_updated) =>
                date[1] \in Range(g.deadlines)

\* the links of an index page that the collector follows
Followed(site, limit) ==
    IF site.kind = "index" THEN Take(site.links, limit) ELSE << >>

\* C25: in every page collector each captured deadline token is tried against
\* both date formats: a record collected from a page or a section holds every
\* future date of its tokens, written with the comma or without it
C25_BothFormatsEverywhere ==
    Merged =>
        \A g \in Fresh :
            /\ g.source_type = "nih" =>
                  \A l \in Range(Followed(web.nih, NihLimit)) :
                      (l.doc.kind = "page" /\ urljoin("https://grants.nih.gov", l.href) = g.url)
                          => RetainsFutureDates(g, l.doc.dates)
            /\ g.source_type = "nsf" =>
                  \A l \in Range(Followed(web.nsf, NsfLimit)) :
                      (l.doc.kind = "page" /\ urljoin("https://www.nsf.gov", l.href) = g.url)
                          => RetainsFutureDates(g, l.doc.dates)
            /\ g.source_type = "foundation" =>
                  \A f \in DOMAIN foundations :
                      (web.foundation[f].kind = "page" /\ foundations[f].url = g.url) =>
                          \A sec \in Range(Take(web.foundation[f].sections, SectionLimit)) :
                              (sec.heading # << >> /\ Strip(sec.heading[1]) = g.title)
                                  => RetainsFutureDates(g, sec.dates)

\* the classification step of the current run has taken place
Classified ==
    \/ pc \in {"rank", "save"}
    \/ pc = "idle" /\ status = "ok"

\* C26: after the classification step of every run each record of the merged
\* set, a record carried over from the baseline with a persisted urgency
\* included, has the urgency that calculate_urgency gives for its deadlines
\* at the time of this run
C26_UrgencyRecomputed ==
    Classified =>
        \A i \in DOMAIN grants :
            grants[i].urgency = calculate_urgency(grants[i], now)

\* a record of the baseline is in the classified set with an urgency other
\* than the one it was persisted with
C26_Witness ==
    /\ Classified
    /\ \E i \in DOMAIN grants, b \in DOMAIN baseline :
          /\ Persisted(grants[i]) = Persisted(baseline[b])
          /\ baseline[b].urgency # NoUrgency
          /\ baseline[b].urgency # grants[i].urgency
          /\ grants[i].urgency = calculate_urgency(grants[i], now)

(***************************************************************************)
(* Properties of the snapshot file across save and load                    *)
(***************************************************************************)
\* the fields of a record that the file is to give back as they were saved
SameSavedFields(a, b) ==
    /\ a.title = b.title
    /\ a.agency = b.agency
    /\ a.amounts = b.amounts
    /\ a.eligibility = b.eligibility
    /\ a.deadlines = b.deadlines
    /\ a.last_updated = b.last_updated

\* C27: loading the file that save_grants has written gives the saved
\* records back, as many and in the same order, each with the title, agency,
\* amounts, eligibility, deadlines and last_updated it was saved with, the
\* times as times and not as text
C27_SaveLoadRoundTrip ==
    (pc = "idle" /\ status = "ok") =>
        LET loaded == load_existing_grants(file)
        IN  /\ Len(loaded) = Len(grants)
            /\ \A i \in DOMAIN grants : SameSavedFields(loaded[i], grants[i])

\* a saved set of several records, one of them with deadlines and with a
\* last_updated that has a time of day, stands in the file as text
C27_Witness ==
    /\ pc = "idle" /\ status = "ok"
    /\ Len(grants) > 1
    /\ Len(file.data) = Len(grants)
    /\ \E i \in DOMAIN grants :
          /\ grants[i].deadlines # << >>
          /\ grants[i].last_updated % SecondsPerDay # 0
          /\ file.data[i].last_updated = IsoFormat(grants[i].last_updated)
          /\ Len(file.data[i].last_updated) = 19
          /\ load_existing_grants(file)[i].last_updated = grants[i].last_updated

(***************************************************************************)
(* Further properties of the merge                                         *)
(***************************************************************************)
\* the distinct identity keys of a list of records
IdentityKeys(gs) ==
    {<<Strip(Lower(g.title)), Lower(g.agency)>> : g \in Range(gs)}

\* C28: the merge loses no identity key and invents no record: right after
\* the merge the output holds one record, and only one, for each identity key
\* of its input (the windowed baseline followed by the fresh records), so it
\* has as many records as the input has keys, and each of them is a record
\* of the input
C28_MergeKeepsEveryKey ==
    pc = "classify" =>
        /\ Len(grants) = Cardinality(IdentityKeys(collected))
        /\ IdentityKeys(grants) = IdentityKeys(collected)
        /\ \A i \in DOMAIN grants : grants[i] \in Range(collected)

\* a merge of baseline and fresh records in which some keys occur twice and
\* others once
C28_Witness ==
    /\ pc = "classify"
    /\ baseline # << >>
    /\ FreshIndices # {}
    /\ Len(grants) > 2
    /\ Len(grants) < Len(collected)
    /\ \E i \in DOMAIN collected :
          \A j \in DOMAIN collected : SameIdentity(collected[i], collected[j]) => i = j

(***************************************************************************)
(* Properties of the snapshot across runs                                  *)
(***************************************************************************)
\* the current run has ended with save_grants and FORCE_REFRESH was off
WroteWithBaseline == pc = "idle" /\ status = "ok" /\ ~force_refresh

\* C29: in the snapshot written by a run with force-refresh off every record
\* has a last_updated strictly later than 7 days before the start of that
\* run, whatever runs came before it
C29_SnapshotWithinWindow ==
    WroteWithBaseline =>
        \A j \in DOMAIN file.data :
            FromIsoFormat(file.data[j].last_updated) > started - Days(StalenessDays)

\* a later run has written a snapshot that holds a record of an earlier run,
\* while another record of the snapshot it loaded had aged out and is gone
C29_Witness ==
    /\ WroteWithBaseline
    /\ runs > 1
    /\ \E j \in DOMAIN file.data :
          FromIsoFormat(file.data[j].last_updated) < started
    /\ \E p \in DOMAIN previous :
          /\ previous[p].last_updated <= started - Days(StalenessDays)
          /\ \A j \in DOMAIN file.data :
                ~SameIdentity(file.data[j], previous[p])

\* the records of the merged output under the identity key of g
MergedUnder(g) == {i \in DOMAIN grants : SameIdentity(grants[i], g)}

\* the merged record is one that a collector of this run has produced
FromThisRun(g) ==
    /\ g.last_updated >= started
    /\ g \in Fresh

\* C30: when a key is both in the windowed baseline, with a last_updated not
\* later than the start of the run, and among the fresh records of the run,
\* the output of the merge holds a fresh record of this run under that key
\* and not the baseline one; every relevant record of the static catalog is
\* in the output of the merge as a record of this run
C30_FreshReplacesBaseline ==
    pc = "classify" =>
        /\ \A b \in DOMAIN baseline :
              (/\ baseline[b].last_updated <= started
               /\ \E f \in Fresh : SameIdentity(f, baseline[b]))
                  => /\ MergedUnder(baseline[b]) # {}
                     /\ \A i \in MergedUnder(baseline[b]) : FromThisRun(grants[i])
        /\ \A s \in Range(Relevant(static_grants(started), profile)) :
              /\ MergedUnder(s) # {}
              /\ \A i \in MergedUnder(s) : FromThisRun(grants[i])

\* a run whose baseline holds a static record and a collected record that
\* this run produces again
C30_Witness ==
    /\ pc = "classify" /\ runs > 1
    /\ \E b, c \in DOMAIN baseline :
          /\ baseline[b].source_type = "static"
          /\ baseline[c].source_type = "nih"
          /\ baseline[b].last_updated < started
          /\ baseline[c].last_updated < started
          /\ \E f \in Fresh : SameIdentity(f, baseline[b]) /\ f.source_type = "static"
          /\ \E f \in Fresh : SameIdentity(f, baseline[c])
          /\ \A i \in MergedUnder(baseline[b]) \cup MergedUnder(baseline[c]) :
                FromThisRun(grants[i])

====
